---- MODULE Spec2Model ----
(***************************************************************************)
(* Model of 100prisoners.c: the Monte Carlo simulation of the 100          *)
(* prisoners problem.  main() parses the command line and runs the trials  *)
(* sequentially, in threads or in forked processes; every worker seeds the *)
(* generator, runs its trials on a union-find structure and hands its      *)
(* success count back; the parent prints the statistics.                   *)
(*                                                                         *)
(* DEFAULT_NUM_PRISONERS (100) and MAX_TRIALS (50) are build parameters of *)
(* the program.  They are the variables numPrisoners and maxTrials here,   *)
(* fixed by Init and never changed, so that the trial is checked for every *)
(* small size and bound instead of one size too large to enumerate.        *)
(***************************************************************************)
EXTENDS Integers, Sequences, FiniteSets, TLC

\* ------------------------------------------------------------------ bounds
\* Largest DEFAULT_NUM_PRISONERS of a whole-program run.
MaxPrisoners == 3
\* Largest number of random() calls a whole-program run can need.
MaxDraws == 4
\* Largest DEFAULT_NUM_PRISONERS of a single trial checked on its own.
MaxTrialSize == 4
\* Largest numSimulations on the command line.
MaxSims == 4
\* Largest numThreads / numProcesses on the command line.
MaxWorkers == 2
\* Largest seed value read from /dev/urandom.
MaxSeed == 0
\* Largest numSimulations of a sequential run checked trial by trial.
MaxTrialRuns == 2

VARIABLES
    argv,           \* argv[1..argc-1], each argument a sequence of characters
    numPrisoners,   \* DEFAULT_NUM_PRISONERS
    maxTrials,      \* MAX_TRIALS
    mainPc,         \* where the parent (main) is
    created,        \* loop index i of the create / fork loop of the parent
    usagePrinted,   \* printUsage() has run
    stats,          \* the reports printStats() has printed, in order
    exitStatus,     \* exit status of the parent, "running" until it exits
    successes,      \* the result slots (stack array or mmap'ed segment)
    listOfParam,    \* listOfParam[i].numSimulations
    rng,            \* state of random()'s generator, one per process
    worker          \* per task: position and locals of splitSimulation,
                    \* simulateAndStats and randomizeArray

vars == <<argv, numPrisoners, maxTrials, mainPc, created, usagePrinted, stats,
          exitStatus, successes, listOfParam, rng, worker>>

Tasks == 0 .. MaxWorkers - 1

\* ------------------------------------------------------ enum found_t
\* 100prisoners.h is not part of the sources; the aggregator adds the
\* returned value to its sum "summing 1 for each Found outcome".
NOT_FOUND == 0
FOUND == 1

\* --------------------------------------------------------- command line
DigitChars == <<"0", "1", "2", "3", "4", "5", "6", "7", "8", "9">>

IsDigit(c) == \E d \in 1 .. 10 : DigitChars[d] = c

DigitVal(c) == (CHOOSE d \in 1 .. 10 : DigitChars[d] = c) - 1

RECURSIVE AtoiFrom(_, _)
AtoiFrom(str, acc) ==
    IF str = <<>> \/ ~IsDigit(Head(str))
    THEN acc
    ELSE AtoiFrom(Tail(str), acc * 10 + DigitVal(Head(str)))

\* atoi() on an argument without sign or leading blanks: the value of the
\* leading digits, 0 when there are none.
atoi(str) == AtoiFrom(str, 0)

RECURSIVE Decimal(_)
\* The decimal numeral of n, as typed on the command line.
Decimal(n) ==
    IF n < 10 THEN <<DigitChars[n + 1]>>
    ELSE Decimal(n \div 10) \o <<DigitChars[(n % 10) + 1]>>

\* *argv[k]: the first character of an argument, the terminating NUL of an
\* empty one.
FirstChar(str) == IF str = <<>> THEN "NUL" ELSE Head(str)

argc == Len(argv) + 1

\* The branch main() takes: "s", "t", "p" or "usage".
Branch ==
    IF argc = 3 THEN
        IF FirstChar(argv[2]) = "s" THEN "s" ELSE "usage"
    ELSE IF argc = 4 THEN
        IF FirstChar(argv[2]) = "p" THEN "p"
        ELSE IF FirstChar(argv[2]) = "t" THEN "t"
        ELSE "usage"
    ELSE "usage"

inputNumSimulations == atoi(argv[1])

\* numThreads / numProcesses
numWorkers == atoi(argv[3])

Argv1Tokens == {Decimal(n) : n \in 0 .. MaxSims} \cup {<<"x">>}
Argv2Tokens == {<<"s">>, <<"t">>, <<"p">>, <<"x">>, <<"s", "x">>, <<>>}
Argv3Tokens == {Decimal(w) : w \in 1 .. MaxWorkers}

\* The command lines of the model: no argument up to four arguments.
CommandLines ==
    {<<>>}
    \cup {<<a>> : a \in Argv1Tokens}
    \cup {<<a, b>> : a \in Argv1Tokens, b \in Argv2Tokens}
    \cup {<<a, b, c>> : a \in Argv1Tokens, b \in Argv2Tokens, c \in Argv3Tokens}
    \cup {<<a, <<"s">>, c, c>> : a \in Argv1Tokens, c \in Argv3Tokens}

\* ------------------------------------------------------------ union-find
\* union-find/union-find.h is not part of the sources: init, find and union
\* follow the contract of the structure.
\* set_union_init(s, n): n singleton partitions.
set_union_init(n) ==
    [parent |-> [e \in 0 .. n - 1 |-> e], size |-> [e \in 0 .. n - 1 |-> 1]]

RECURSIVE find(_, _)
\* find(s, i): follow the parent links to a self-parent; no compression.
find(s, e) == IF s.parent[e] = e THEN e ELSE find(s, s.parent[e])

\* union_set(s, a, b): parent[find(a)] = find(b), and the size of b's root
\* grows by the size of a's root.
union_set(s, a, b) ==
    LET ra == find(s, a)
        rb == find(s, b)
    IN  [parent |-> [s.parent EXCEPT ![ra] = rb],
         size   |-> [s.size EXCEPT ![rb] = s.size[rb] + s.size[ra]]]

\* ------------------------------------------------------------- generator
\* The generator of random() is process-wide state.  Its state is the seed
\* it was last given and the number of values drawn since; a process that
\* never called srandom() runs on the default seed 1.  Threads share the
\* generator of their process, a forked child owns a copy.
DefaultRng == [seed |-> 1, pos |-> 0]

\* The generator task w draws from.
Gen(w) == IF Branch = "p" THEN w + 1 ELSE 0

Generators == 0 .. MaxWorkers

\* srandom(seedVal)
srandom(seedVal) == [seed |-> seedVal, pos |-> 0]

\* The state after one call of random().
Advance(g) == [g EXCEPT !.pos = @ + 1]

\* The values random() may return: enough of them to reach every residue
\* of every modulus the trial uses.
RandomValues == 0 .. numPrisoners

\* ---------------------------------------------------------------- tasks
\* The set_union of a simulateAndStats() that has not run a trial yet.
Unused == [parent |-> <<>>, size |-> <<>>]

IdleWorker ==
    [pc |-> "idle", seedVal |-> 0, i |-> 0, sum |-> 0, s |-> Unused,
     currentIndex |-> 0, draws |-> <<>>, ret |-> <<>>,
     nFound |-> 0, consumed |-> 0]

\* exit() ending only the calling thread.
AliveAfterExit(w) == TRUE

\* A process that has exited runs none of its threads any more; a forked
\* child is a process of its own.
Alive(w) == Branch = "p" \/ mainPc # "exit"

\* The parameter n of simulateAndStats() as task w calls it.
SimN(w) == IF Branch = "s" THEN inputNumSimulations ELSE listOfParam[w]

\* The trials the command line asks for, and the random() calls they can
\* need: a trial of n prisoners draws at most n - 1 times.
TrialsAsked == IF Branch = "usage" THEN 0 ELSE inputNumSimulations

DrawsNeeded == (numPrisoners - 1) * TrialsAsked

\* ----------------------------------------------------------------- Init
Init ==
    /\ argv \in CommandLines
    /\ numPrisoners \in 1 .. MaxPrisoners
    /\ maxTrials \in 0 .. numPrisoners
    /\ DrawsNeeded <= MaxDraws
    /\ mainPc = "main"
    /\ created = 0
    /\ usagePrinted = FALSE
    /\ stats = <<>>
    /\ exitStatus = "running"
    /\ successes = [w \in Tasks |-> 0]
    /\ listOfParam = [w \in Tasks |-> 0]
    /\ rng = [g \in Generators |-> DefaultRng]
    /\ worker = [w \in Tasks |-> IdleWorker]

\* ------------------------------------------------------------ the parent
\* printStats(sum, n, caller): the report, as the values it is given.
printStats(sum, n, caller) == [sum |-> sum, n |-> n, caller |-> caller]

\* main(), lines 45-71, up to the call the branch makes.  The sequential
\* branch enters simulateAndStats() in the main thread (task 0); the other
\* two branches enter their create / fork loop.  An int array on the stack
\* (threads) holds whatever the stack held; the anonymous shared mapping
\* (processes) is zero-filled.
Main ==
    /\ mainPc = "main"
    /\ IF Branch = "usage"
       THEN /\ usagePrinted' = TRUE
            /\ mainPc' = "exit"
            /\ exitStatus' = "EXIT_SUCCESS"
            /\ UNCHANGED <<worker, successes>>
       ELSE /\ mainPc' = Branch
            /\ worker' = IF Branch = "s"
                          THEN [worker EXCEPT ![0].pc = "seed"]
                          ELSE worker
            /\ IF Branch = "t"
               THEN \E garbage \in {0, MaxSims + 1} :
                        successes' = [w \in Tasks |-> garbage]
               ELSE UNCHANGED successes
            /\ UNCHANGED <<usagePrinted, exitStatus>>
    /\ UNCHANGED <<argv, numPrisoners, maxTrials, created, stats, listOfParam, rng>>

\* One iteration of the loop of lines 159-167: fill listOfParam[i] and
\* start thread i in splitSimulation().  The code ignores the result of
\* pthread_create() (and of mmap()); a run in which one of them fails is not
\* modelled, nor is a worker count below 1, which divides by zero.
PthreadCreate ==
    /\ mainPc = "t"
    /\ created < numWorkers
    /\ listOfParam' = [listOfParam EXCEPT ![created] = inputNumSimulations \div numWorkers]
    /\ worker' = [worker EXCEPT ![created].pc = "seed"]
    /\ created' = created + 1
    /\ UNCHANGED <<argv, numPrisoners, maxTrials, mainPc, usagePrinted, stats,
                   exitStatus, successes, rng>>

\* Task w has returned from splitSimulation().
Finished(w) == worker[w].pc = "done"

\* pthread_join() returns for every thread.
AllJoined == \A w \in 0 .. numWorkers - 1 : Finished(w)

RECURSIVE SumSlots(_, _)
\* sum += successes[i] for i < k.
SumSlots(slots, k) == IF k <= 0 THEN 0 ELSE SumSlots(slots, k - 1) + slots[k - 1]

\* int numSimulation = (n / numThreads) * numThreads;
numSimulation == (inputNumSimulations \div numWorkers) * numWorkers

\* Lines 168-177: join every thread, sum the slots, print, and return to
\* main(), which returns EXIT_SUCCESS.
ThreadsReport ==
    /\ mainPc = "t"
    /\ created >= numWorkers
    /\ AllJoined
    /\ stats' = Append(stats, printStats(SumSlots(successes, numWorkers),
                                         numSimulation, "All threads"))
    /\ mainPc' = "exit"
    /\ exitStatus' = "EXIT_SUCCESS"
    /\ UNCHANGED <<argv, numPrisoners, maxTrials, created, usagePrinted,
                   successes, listOfParam, rng, worker>>

\* fork() succeeds (lines 189-197): child i starts with a copy of the
\* parent's memory, fills its listOfParam[i] and enters splitSimulation().
Fork ==
    /\ mainPc = "p"
    /\ created < numWorkers
    /\ listOfParam' = [listOfParam EXCEPT ![created] = inputNumSimulations \div numWorkers]
    /\ worker' = [worker EXCEPT ![created].pc = "seed"]
    /\ rng' = [rng EXCEPT ![created + 1] = rng[0]]
    /\ created' = created + 1
    /\ UNCHANGED <<argv, numPrisoners, maxTrials, mainPc, usagePrinted, stats,
                   exitStatus, successes>>

\* fork() fails (lines 198-201): perror, exit(EXIT_FAILURE) in the parent.
\* The children forked before are processes of their own and go on.
ForkFail ==
    /\ mainPc = "p"
    /\ created < numWorkers
    /\ mainPc' = "exit"
    /\ exitStatus' = "EXIT_FAILURE"
    /\ UNCHANGED <<argv, numPrisoners, maxTrials, created, usagePrinted, stats,
                   successes, listOfParam, rng, worker>>

\* Child w has exited, with either status.
Exited(w) == worker[w].pc \in {"done", "failed"}

\* while (wait(NULL) > 0); ends once no child is left.
AllExited == \A w \in 0 .. numWorkers - 1 : Exited(w)

\* Lines 203-209: wait for every child, sum the slots, print, return.
ProcessesReport ==
    /\ mainPc = "p"
    /\ created >= numWorkers
    /\ AllExited
    /\ stats' = Append(stats, printStats(SumSlots(successes, numWorkers),
                                         numSimulation, "All processes"))
    /\ mainPc' = "exit"
    /\ exitStatus' = "EXIT_SUCCESS"
    /\ UNCHANGED <<argv, numPrisoners, maxTrials, created, usagePrinted,
                   successes, listOfParam, rng, worker>>

\* ------------------------------------------------------------- workers
\* seed(), lines 139-150, succeeding at the head of simulateAndStats()
\* (lines 87-90): read seedVal from /dev/urandom and srandom() it into the
\* generator of the calling process; sum = 0, i = 0.
Seed(w) ==
    /\ worker[w].pc = "seed"
    /\ Alive(w)
    /\ \E seedVal \in 0 .. MaxSeed :
        /\ rng' = [rng EXCEPT ![Gen(w)] = srandom(seedVal)]
        /\ worker' = [worker EXCEPT ![w].pc = "loop", ![w].seedVal = seedVal,
                                    ![w].sum = 0, ![w].i = 0]
    /\ UNCHANGED <<argv, numPrisoners, maxTrials, mainPc, created, usagePrinted,
                   stats, exitStatus, successes, listOfParam>>

\* seed(), lines 140-149, failing: fopen() or fread() fails and the calling
\* process exits with EXIT_FAILURE.  In a forked child that is the child
\* alone; otherwise it is the program, with every thread of it.
SeedFail(w) ==
    /\ worker[w].pc = "seed"
    /\ Alive(w)
    /\ worker' = [worker EXCEPT ![w].pc = "failed"]
    /\ IF Branch = "p"
       THEN UNCHANGED <<mainPc, exitStatus>>
       ELSE mainPc' = "exit" /\ exitStatus' = "EXIT_FAILURE"
    /\ UNCHANGED <<argv, numPrisoners, maxTrials, created, usagePrinted, stats,
                   successes, listOfParam, rng>>

\* The loop of simulateAndStats() running once more than asked.
MoreTrialsInclusive(w) == worker[w].i <= SimN(w)

\* for (int i=0; i<n; i++), line 91
MoreTrials(w) == worker[w].i < SimN(w)

\* The structure initialised for the first trial only.
BeginTrialKeepsSets(w) ==
    /\ worker[w].pc = "loop"
    /\ Alive(w)
    /\ MoreTrials(w)
    /\ worker' = [worker EXCEPT ![w].pc = "trial",
                                ![w].currentIndex = numPrisoners - 1,
                                ![w].s = IF @ = Unused
                                         THEN set_union_init(numPrisoners) ELSE @,
                                ![w].draws = <<>>,
                                ![w].ret = <<>>]
    /\ UNCHANGED <<argv, numPrisoners, maxTrials, mainPc, created, usagePrinted,
                   stats, exitStatus, successes, listOfParam, rng>>

\* Lines 91-92 and 100-101, 121-124: the loop of simulateAndStats() calls
\* runSimulation(), which calls randomizeArray(s, DEFAULT_NUM_PRISONERS):
\* currentIndex = size - 1 and the structure is initialised.
BeginTrial(w) ==
    /\ worker[w].pc = "loop"
    /\ Alive(w)
    /\ MoreTrials(w)
    /\ worker' = [worker EXCEPT ![w].pc = "trial",
                                ![w].currentIndex = numPrisoners - 1,
                                ![w].s = set_union_init(numPrisoners),
                                ![w].draws = <<>>,
                                ![w].ret = <<>>]
    /\ UNCHANGED <<argv, numPrisoners, maxTrials, mainPc, created, usagePrinted,
                   stats, exitStatus, successes, listOfParam, rng>>

\* The loop condition with the index 0 taken for an iteration too.
LoopCondInclusive(currentIndex) == currentIndex >= 0

\* while (currentIndex > 0), line 125
LoopCond(currentIndex) == currentIndex > 0

\* The test of the bound with the comparison turned round.
ExceedsBoundInverted(s, currentIndex) == s.size[find(s, currentIndex)] < maxTrials

\* if (s->size[find(s, currentIndex)] > MAX_TRIALS), line 129
ExceedsBound(s, currentIndex) == s.size[find(s, currentIndex)] > maxTrials

\* The random index taken modulo the whole array.
RandomIndexWholeArray(rnd, currentIndex) == rnd % numPrisoners

\* randomIndex = random() % (currentIndex+1), line 126
RandomIndex(rnd, currentIndex) == rnd % (currentIndex + 1)

\* The step down left out.
NextIndexStuck(currentIndex) == currentIndex

\* currentIndex--, line 133
NextIndex(currentIndex) == currentIndex - 1

\* sum += runSimulation(&s); i++ (lines 91-92): the trial of task w returns
\* result.
Returned(w, result) ==
    [worker[w] EXCEPT !.pc = "loop",
                      !.ret = <<result>>,
                      !.sum = @ + result,
                      !.i = @ + 1,
                      !.nFound = IF result = FOUND THEN @ + 1 ELSE @]

\* One iteration of the loop of lines 125-134: draw, union, test the bound,
\* and either return NOT_FOUND to simulateAndStats() or step down.
TrialStep(w) ==
    /\ worker[w].pc = "trial"
    /\ Alive(w)
    /\ LoopCond(worker[w].currentIndex)
    /\ \E rnd \in RandomValues :
        LET currentIndex == worker[w].currentIndex
            randomIndex == RandomIndex(rnd, currentIndex)
            s2 == union_set(worker[w].s, currentIndex, randomIndex)
            drawn == [worker[w] EXCEPT !.s = s2,
                                       !.draws = Append(@, randomIndex),
                                       !.consumed = @ + 1]
        IN  /\ rng' = [rng EXCEPT ![Gen(w)] = Advance(@)]
            /\ IF ExceedsBound(s2, currentIndex)
               THEN worker' = [worker EXCEPT ![w] =
                                 [Returned(w, NOT_FOUND) EXCEPT
                                     !.s = s2,
                                     !.draws = drawn.draws,
                                     !.consumed = drawn.consumed]]
               ELSE worker' = [worker EXCEPT ![w] =
                                 [drawn EXCEPT !.currentIndex = NextIndex(currentIndex)]]
    /\ UNCHANGED <<argv, numPrisoners, maxTrials, mainPc, created, usagePrinted,
                   stats, exitStatus, successes, listOfParam>>

\* The loop of lines 125-134 ends and line 135 returns FOUND.
TrialFound(w) ==
    /\ worker[w].pc = "trial"
    /\ Alive(w)
    /\ ~LoopCond(worker[w].currentIndex)
    /\ worker' = [worker EXCEPT ![w] = Returned(w, FOUND)]
    /\ UNCHANGED <<argv, numPrisoners, maxTrials, mainPc, created, usagePrinted,
                   stats, exitStatus, successes, listOfParam, rng>>

\* The result stored into slot 0 whatever the task number.
SplitSimulationReturnSlotZero(w) ==
    /\ Branch \in {"t", "p"}
    /\ worker[w].pc = "loop"
    /\ Alive(w)
    /\ ~MoreTrials(w)
    /\ successes' = [successes EXCEPT ![0] = worker[w].sum]
    /\ worker' = [worker EXCEPT ![w].pc = "done"]
    /\ UNCHANGED <<argv, numPrisoners, maxTrials, mainPc, created, usagePrinted,
                   stats, exitStatus, listOfParam, rng>>

\* simulateAndStats() returns sum to splitSimulation(), which stores it in
\* the slot of its task (line 232) and returns: the thread ends, the child
\* exits with EXIT_SUCCESS (line 196).
SplitSimulationReturn(w) ==
    /\ Branch \in {"t", "p"}
    /\ worker[w].pc = "loop"
    /\ Alive(w)
    /\ ~MoreTrials(w)
    /\ successes' = [successes EXCEPT ![w] = worker[w].sum]
    /\ worker' = [worker EXCEPT ![w].pc = "done"]
    /\ UNCHANGED <<argv, numPrisoners, maxTrials, mainPc, created, usagePrinted,
                   stats, exitStatus, listOfParam, rng>>

\* Lines 48-49 and 72: simulateAndStats() returns sum to main(), which
\* prints the statistics of inputNumSimulations and returns EXIT_SUCCESS.
SequentialReport ==
    /\ mainPc = "s"
    /\ worker[0].pc = "loop"
    /\ ~MoreTrials(0)
    /\ stats' = Append(stats, printStats(worker[0].sum, inputNumSimulations,
                                         "Sequence (Single Thread / Process)"))
    /\ worker' = [worker EXCEPT ![0].pc = "done"]
    /\ mainPc' = "exit"
    /\ exitStatus' = "EXIT_SUCCESS"
    /\ UNCHANGED <<argv, numPrisoners, maxTrials, created, usagePrinted,
                   successes, listOfParam, rng>>

\* ----------------------------------------------------------------- Spec
Next ==
    \/ Main
    \/ PthreadCreate
    \/ ThreadsReport
    \/ Fork
    \/ ForkFail
    \/ ProcessesReport
    \/ SequentialReport
    \/ \E w \in Tasks : Seed(w)
    \/ \E w \in Tasks : SeedFail(w)
    \/ \E w \in Tasks : BeginTrial(w)
    \/ \E w \in Tasks : TrialStep(w)
    \/ \E w \in Tasks : TrialFound(w)
    \/ \E w \in Tasks : SplitSimulationReturn(w)

Spec == Init /\ [][Next]_vars

\* A sequential run of a few trials, for every size up to MaxTrialSize and
\* every bound: the single-trial simulator on all its inputs.
InitTrial ==
    /\ argv \in {<<Decimal(n), <<"s">>>> : n \in 1 .. MaxTrialRuns}
    /\ numPrisoners \in 1 .. MaxTrialSize
    /\ maxTrials \in 0 .. numPrisoners + 1
    /\ mainPc = "main"
    /\ created = 0
    /\ usagePrinted = FALSE
    /\ stats = <<>>
    /\ exitStatus = "running"
    /\ successes = [w \in Tasks |-> 0]
    /\ listOfParam = [w \in Tasks |-> 0]
    /\ rng = [g \in Generators |-> DefaultRng]
    /\ worker = [w \in Tasks |-> IdleWorker]

NextTrial ==
    \/ Main
    \/ Seed(0)
    \/ BeginTrial(0)
    \/ TrialStep(0)
    \/ TrialFound(0)
    \/ SequentialReport

SpecTrial == InitTrial /\ [][NextTrial]_vars

\* The sequential run scheduled: the one thread of control keeps taking its
\* next step while it has one.
SpecTrialFair == SpecTrial /\ WF_vars(NextTrial)

\* ------------------------------------------------- permutations and cycles
Identity(n) == [e \in 0 .. n - 1 |-> e]

Swap(a, i, j) == [a EXCEPT ![i] = a[j], ![j] = a[i]]

RECURSIVE ApplySwaps(_, _, _)
\* The array after the swaps (i, ds[1]), (i - 1, ds[2]), ... in that order.
ApplySwaps(a, i, ds) ==
    IF ds = <<>> THEN a ELSE ApplySwaps(Swap(a, i, Head(ds)), i - 1, Tail(ds))

\* The permutation the draws ds shuffle the identity of n elements into.
Permutation(n, ds) == ApplySwaps(Identity(n), n - 1, ds)

RECURSIVE CycleLength(_, _, _, _)
CycleLength(a, start, at, len) ==
    IF a[at] = start THEN len ELSE CycleLength(a, start, a[at], len + 1)

MaxCycleLength(a) ==
    CHOOSE m \in 1 .. Cardinality(DOMAIN a) :
        /\ \E e \in DOMAIN a : CycleLength(a, e, e, 1) = m
        /\ \A e \in DOMAIN a : CycleLength(a, e, e, 1) <= m

RECURSIVE Completions(_)
\* Every sequence of draws r_i in [0, i] for i, i - 1, ..., 1.
Completions(i) ==
    IF i < 1 THEN {<<>>}
    ELSE {<<r>> \o c : r \in 0 .. i, c \in Completions(i - 1)}

\* The trial of task w has returned and no other has begun.
TrialReturned(w) == worker[w].ret # <<>>

\* The trial of task w is inside randomizeArray().
InTrial(w) == worker[w].pc = "trial"

\* ---------------------------------------------------------------- claims
\* C1: for every n >= 1, every cycleBound and every sequence of draws r_i in
\* [0, i], the trial returns Found exactly when the permutation obtained by
\* applying the swaps (i, r_i) to the identity has maximum cycle length <=
\* cycleBound, and NotFound exactly when it has a longer cycle.  A trial that
\* returned early is compared with every way to complete its draws.  The
\* bounds looked at are the bounds >= 1: under bound 0 a single prisoner is
\* Found (C4) though his cycle has length 1.
C1_OutcomeIsCycleBound ==
    \A w \in Tasks :
        (TrialReturned(w) /\ maxTrials >= 1) =>
            \A c \in Completions(numPrisoners - 1 - Len(worker[w].draws)) :
                (worker[w].ret = <<FOUND>>)
                    <=> (MaxCycleLength(Permutation(numPrisoners, worker[w].draws \o c))
                            <= maxTrials)

\* C2: for all n >= 1 and all cycleBound >= n the trial returns Found for
\* every sequence of draws, draws with randomIndex = currentIndex included.
C2_FoundWhenBoundAtLeastN ==
    \A w \in Tasks :
        (TrialReturned(w) /\ maxTrials >= numPrisoners) => worker[w].ret = <<FOUND>>

\* C3: for all n >= 2 and cycleBound = 0 the trial returns NotFound right
\* after the first union (the one for currentIndex = n - 1), whatever the
\* first draw, and makes no second draw or union.
C3_BoundZeroFailsOnFirstUnion ==
    \A w \in Tasks :
        (numPrisoners >= 2 /\ maxTrials = 0) =>
            /\ InTrial(w) => worker[w].draws = <<>>
            /\ TrialReturned(w) =>
                /\ worker[w].ret = <<NOT_FOUND>>
                /\ Len(worker[w].draws) = 1
                /\ worker[w].currentIndex = numPrisoners - 1
                /\ \E r \in 0 .. numPrisoners - 1 :
                    worker[w].s = union_set(set_union_init(numPrisoners),
                                            numPrisoners - 1, r)

\* C3 happens: a trial of three prisoners or more with bound 0 has returned
\* NotFound after drawing its own index.
C3_Witness ==
    /\ numPrisoners >= 3
    /\ maxTrials = 0
    /\ worker[0].ret = <<NOT_FOUND>>
    /\ worker[0].draws = <<numPrisoners - 1>>

\* C4: for n = 1 and any cycleBound the trial makes no random draw and no
\* union (the loop body never runs) and returns Found.
C4_SinglePrisonerFound ==
    \A w \in Tasks :
        numPrisoners = 1 =>
            /\ worker[w].draws = <<>>
            /\ worker[w].consumed = 0
            /\ worker[w].s \in {Unused, set_union_init(1)}
            /\ TrialReturned(w) => worker[w].ret = <<FOUND>>

\* C4 happens: a trial of one prisoner has returned Found under bound 0.
C4_Witness ==
    /\ numPrisoners = 1
    /\ maxTrials = 0
    /\ worker[0].ret = <<FOUND>>
    /\ worker[0].i = 1

\* The workers the command line asks for.
Workers == 0 .. numWorkers - 1

RECURSIVE SumOver(_, _)
\* f[0] + ... + f[k - 1]
SumOver(f, k) == IF k <= 0 THEN 0 ELSE SumOver(f, k - 1) + f[k - 1]

\* The trials all workers have run to their return, and the successes the
\* workers have counted.
TrialsExecuted == SumOver([w \in Tasks |-> worker[w].i], numWorkers)

SuccessesCounted == SumOver([w \in Tasks |-> worker[w].sum], numWorkers)

Split == Branch \in {"t", "p"}

\* A statistics report has been printed.
Reported == stats # <<>>

\* C5: in thread mode and in process mode, for requested trial count n and
\* w >= 1 workers, every worker runs exactly floor(n / w) trials, the trials
\* executed are w * floor(n / w) in all, and the simulation count handed to
\* the statistics report is that same w * floor(n / w).
C5_EveryWorkerRunsItsShare ==
    (Split /\ Reported) =>
        /\ \A w \in Workers : worker[w].i = inputNumSimulations \div numWorkers
        /\ TrialsExecuted = numWorkers * (inputNumSimulations \div numWorkers)
        /\ stats[1].n = numWorkers * (inputNumSimulations \div numWorkers)

\* simulateAndStats() of task w has run its loop to the end.
SimulationReturned(w) ==
    \/ worker[w].pc = "done"
    \/ worker[w].pc = "loop" /\ ~(worker[w].i < SimN(w))

\* C6: the aggregator invokes the single-trial simulator exactly trialCount
\* times and returns the number of those trials whose outcome was Found;
\* 0 <= successCount <= trialCount, and a NotFound outcome adds 0.
C6_AggregatorCountsFound ==
    \A w \in Tasks :
        /\ worker[w].sum = worker[w].nFound
        /\ 0 <= worker[w].sum /\ worker[w].sum <= worker[w].i
        /\ SimulationReturned(w) =>
            /\ worker[w].i = SimN(w)
            /\ worker[w].sum <= SimN(w)

\* C6 happens: a simulateAndStats() of two trials or more has returned after
\* trials of both outcomes.
C6_Witness ==
    /\ worker[0].pc = "done"
    /\ worker[0].i >= 2
    /\ worker[0].sum >= 1
    /\ worker[0].sum < worker[0].i

\* C7: in thread mode and in process mode the parent reads no result slot
\* and prints no statistics until every worker has written its slot and
\* completed; the success total it then reports is the sum over all workers
\* of the successes each worker counted.
C7_ReportAfterAllWorkersWrote ==
    (Split /\ Reported) =>
        /\ \A w \in Workers : worker[w].pc = "done" /\ successes[w] = worker[w].sum
        /\ stats[1].sum = SuccessesCounted

\* C8: in thread mode each worker has its own random-number stream: what a
\* worker draws is decided by its own seed alone, whatever the other workers
\* seed or draw.  The generator state a worker is about to draw from is the
\* state its own seed and its own draws lead to.
C8_OwnRandomStream ==
    Branch = "t" =>
        \A w \in Workers :
            (InTrial(w) /\ LoopCond(worker[w].currentIndex)) =>
                rng[Gen(w)] = [seed |-> worker[w].seedVal, pos |-> worker[w].consumed]

\* The command line has one of the three shapes of the usage text.
UsageShape ==
    \/ argc = 3 /\ argv[2] = <<"s">>
    \/ argc = 4 /\ argv[2] \in {<<"t">>, <<"p">>}

\* C9: for every invocation whose arguments are not of the shape
\* '<numSimulations> s', '<numSimulations> t <numThreads>' or
\* '<numSimulations> p <numProcesses>', the program prints the usage text,
\* runs no trial, starts no thread or process, prints no statistics and
\* exits with success.
C9_OtherShapesPrintUsage ==
    ~UsageShape =>
        /\ \A w \in Tasks : worker[w] = IdleWorker
        /\ created = 0
        /\ ~Reported
        /\ mainPc = "exit" => (usagePrinted /\ exitStatus = "EXIT_SUCCESS")

\* The parent has exited on a failed fork().
ForkFailed == Branch = "p" /\ mainPc = "exit" /\ exitStatus = "EXIT_FAILURE"

\* C10: in process mode, if creating a worker process fails the whole run
\* ends at once: the parent exits with failure status without a statistics
\* report, and no worker forked before the failure runs on afterwards.
C10_ForkFailureEndsTheRun ==
    [][ForkFail => (exitStatus' = "EXIT_FAILURE" /\ stats' = <<>>)]_vars
    /\ [][ForkFailed => (worker' = worker /\ stats' = stats)]_vars

\* -------------------------------------------------------------------------
\* C11
\* The task w left the program in seed(): fopen or fread failed.
SeedFailed(w) == worker[w].pc = "failed"

\* What holds of a task that failed in seed(): it has drawn no number, begun
\* no trial and never called srandom; outside process mode the whole program
\* has exited with EXIT_FAILURE and printed no report.
FailedBeforeAnyTrial(w) ==
    /\ worker[w].consumed = 0
    /\ worker[w].i = 0
    /\ worker[w].draws = <<>>
    /\ worker[w].ret = <<>>
    /\ worker[w].s = Unused
    /\ Branch = "p" => rng[Gen(w)] = DefaultRng
    /\ Branch # "p" =>
        /\ mainPc = "exit"
        /\ exitStatus = "EXIT_FAILURE"
        /\ ~Reported

C12_ReportedCountAboveOne ==
    \A k \in 1 .. Len(stats) : stats[k].n > 1

\* -------------------------------------------------------------------------
\* C13
\* The elements of the structure s whose root is r.
Members(s, r) == {e \in DOMAIN s.parent : find(s, e) = r}

\* Every element reaches a root that is its own parent, and the size kept at
\* each root is the number of elements under that root.
SizesCountMembers(s) ==
    \A e \in DOMAIN s.parent :
        LET r == find(s, e)
        IN  /\ s.parent[r] = r
            /\ s.size[r] = Cardinality(Members(s, r))

\* C13: after init(n) and after every union, the union of an element with
\* itself included, every element reaches a root that is its own parent and
\* size[root] is the number of elements whose root is that root.
C13_SizeAtRootCountsMembers ==
    \A w \in Tasks : worker[w].s # Unused => SizesCountMembers(worker[w].s)

\* -------------------------------------------------------------------------
\* C14
\* Task w has returned from splitSimulation().
WroteSlot(w) == worker[w].pc = "done"

\* C14: in thread and in process mode slot i of the results array is written
\* by worker i alone, once, in the step that ends its trials, with its own
\* success count; no other step of any task changes the slot, and a worker
\* that has written never moves again, so whatever the interleaving the slot
\* of every worker that finished holds that worker's count.
C14_OwnSlotWrittenOnce ==
    /\ [](Split => \A w \in Workers :
            WroteSlot(w) => (successes[w] = worker[w].sum /\ worker[w].i = SimN(w)))
    /\ [][Split /\ mainPc # "main" => \A w \in Tasks :
            /\ successes'[w] # successes[w] =>
                /\ worker[w].pc = "loop" /\ ~MoreTrials(w)
                /\ WroteSlot(w)'
                /\ successes'[w] = worker[w].sum
                /\ \A v \in Tasks \ {w} : successes'[v] = successes[v]
            /\ WroteSlot(w) => worker'[w] = worker[w]]_vars

\* Two workers have both written, the second one a count the first did not
\* have.
C14_Witness ==
    /\ Split
    /\ numWorkers = 2
    /\ WroteSlot(0) /\ WroteSlot(1)
    /\ worker[0].sum # worker[1].sum
    /\ successes[0] = worker[0].sum /\ successes[1] = worker[1].sum

\* -------------------------------------------------------------------------
\* C15
RECURSIVE RootWithin(_, _, _)
\* Following the parent links from e reaches a self-parent in at most k links.
RootWithin(s, e, k) ==
    IF s.parent[e] = e THEN TRUE
    ELSE IF k = 0 THEN FALSE
    ELSE RootWithin(s, s.parent[e], k - 1)

\* The parent links form no cycle apart from the self-link of a root.
Acyclic(s) ==
    \A e \in DOMAIN s.parent : RootWithin(s, e, Cardinality(DOMAIN s.parent) - 1)

\* C15: every trial terminates.  A trial makes at most n - 1 draw / union
\* steps (the index steps down after each and never passes 0), the parent
\* links never form a cycle other than a root's self-link, so every find
\* ends, and a trial that has begun returns.
C15_TrialTerminates ==
    /\ [](\A w \in Tasks :
            /\ worker[w].s # Unused => Acyclic(worker[w].s)
            /\ Len(worker[w].draws) <= numPrisoners - 1
            /\ InTrial(w) =>
                /\ worker[w].currentIndex >= 0
                /\ worker[w].currentIndex + Len(worker[w].draws) = numPrisoners - 1)
    /\ (InTrial(0) ~> TrialReturned(0))

\* A trial that took all of its n - 1 steps, n the largest size.
C15_Witness ==
    /\ numPrisoners = MaxTrialSize
    /\ TrialReturned(0)
    /\ Len(worker[0].draws) = numPrisoners - 1
    /\ worker[0].ret = <<FOUND>>

\* -------------------------------------------------------------------------
\* C16
RECURSIVE TrialOn(_, _, _)
\* A trial run on the structure s from index currentIndex with the draws ds:
\* its result (none when the draws run out before the loop ends), the
\* structure it leaves and the draws it did not use.
TrialOn(s, currentIndex, ds) ==
    IF ~LoopCond(currentIndex) THEN [ret |-> <<FOUND>>, s |-> s, rest |-> ds]
    ELSE IF ds = <<>> THEN [ret |-> <<>>, s |-> s, rest |-> ds]
    ELSE LET s2 == union_set(s, currentIndex, Head(ds))
         IN  IF ExceedsBound(s2, currentIndex)
             THEN [ret |-> <<NOT_FOUND>>, s |-> s2, rest |-> Tail(ds)]
             ELSE TrialOn(s2, NextIndex(currentIndex), Tail(ds))

\* The trial of n prisoners on n singleton partitions with the draws ds.
FreshTrial(n, ds) == TrialOn(set_union_init(n), n - 1, ds)

\* C16: in a run that uses one set_union for all of its trials, every trial
\* starts from N singleton partitions whatever the trial before left in the
\* structure, and the result of a trial is a function of its own draws: it
\* is the result of those draws applied to N fresh singletons.
C16_EveryTrialStartsFresh ==
    \A w \in Tasks :
        /\ (InTrial(w) /\ worker[w].draws = <<>>) =>
                worker[w].s = set_union_init(numPrisoners)
        /\ TrialReturned(w) =>
                /\ FreshTrial(numPrisoners, worker[w].draws).ret = worker[w].ret
                /\ FreshTrial(numPrisoners, worker[w].draws).s = worker[w].s
                /\ FreshTrial(numPrisoners, worker[w].draws).rest = <<>>

\* The second trial of a run returns Found after the first one returned
\* NotFound and left a partition above the bound in the structure.
C16_Witness ==
    /\ numPrisoners >= 3
    /\ worker[0].i = 2
    /\ worker[0].nFound = 1
    /\ worker[0].ret = <<FOUND>>
    /\ Len(worker[0].draws) = numPrisoners - 1

\* -------------------------------------------------------------------------
\* C17
\* Task w is in a trial, or between two of its trials.
DuringOrBetweenTrials(w) ==
    \/ InTrial(w)
    \/ worker[w].pc = "loop" /\ worker[w].i >= 1 /\ MoreTrials(w)

\* The step is task v's srandom(seedVal).
Seeds(v) == worker[v].pc = "seed" /\ worker'[v].pc = "loop"

\* C17: the generator a worker draws from is seeded once, before the
\* worker's first trial, and not again between or during its trials, in
\* every mode and under every interleaving of the threads: a worker that has
\* seeded does not seed again, and during and between its trials no other
\* task seeds the generator it draws from.
C17_SeededOncePerWorker ==
    [][\A w \in Tasks :
        /\ worker[w].pc \in {"loop", "trial", "done"} => ~Seeds(w)
        /\ DuringOrBetweenTrials(w) =>
            \A v \in Tasks \ {w} : Seeds(v) => Gen(v) # Gen(w)]_vars

\* -------------------------------------------------------------------------
\* C18
RECURSIVE AllUnions(_, _, _)
\* The structure after the unions (currentIndex, ds[1]),
\* (currentIndex - 1, ds[2]), ... with no test in between.
AllUnions(s, currentIndex, ds) ==
    IF ds = <<>> THEN s
    ELSE AllUnions(union_set(s, currentIndex, Head(ds)), currentIndex - 1, Tail(ds))

\* The structure of n elements after the first k unions of the draws ds.
AfterUnions(n, ds, k) == AllUnions(set_union_init(n), n - 1, SubSeq(ds, 1, k))

\* The partition of e has more elements than the bound.
PartitionAbove(s, e) == Cardinality(Members(s, find(s, e))) > maxTrials

\* Some partition of s has a recorded size above the bound.
SomePartitionAbove(s) == \E e \in DOMAIN s.parent : PartitionAbove(s, e)

\* The k-th union of the draws ds takes the partition of its index above the
\* bound.
ExceedsAtStep(n, ds, k) == PartitionAbove(AfterUnions(n, ds, k), n - k)

\* A returned trial of worker w tested the bound after each union and stopped
\* at the first step above it: the structure holds the unions of the draws
\* made and no more, NotFound was returned at the first step above the bound,
\* Found after n - 1 steps none of which was above it.
StoppedAtFirstExcess(w) ==
    LET ds == worker[w].draws
        n == numPrisoners
    IN  /\ worker[w].s = AfterUnions(n, ds, Len(ds))
        /\ \A k \in 1 .. Len(ds) - 1 : ~ExceedsAtStep(n, ds, k)
        /\ worker[w].ret = <<NOT_FOUND>> => (Len(ds) >= 1 /\ ExceedsAtStep(n, ds, Len(ds)))
        /\ worker[w].ret = <<FOUND>> =>
            /\ Len(ds) = n - 1
            /\ Len(ds) >= 1 => ~ExceedsAtStep(n, ds, Len(ds))

\* The result of worker w's trial is that of making all n - 1 unions,
\* whatever the draws not made would have been, and testing at the end
\* whether some partition is above the bound.
SameAsTestAtEnd(w) ==
    \A c \in Completions(numPrisoners - 1 - Len(worker[w].draws)) :
        (worker[w].ret = <<NOT_FOUND>>)
            <=> SomePartitionAbove(AfterUnions(numPrisoners, worker[w].draws \o c,
                                               numPrisoners - 1))

\* C18: the trial tests the bound after every union and returns NotFound at
\* the first step after which the partition of currentIndex has a size above
\* cycleBound, with no further draw or union; this result equals that of
\* making all n - 1 unions and then testing whether any partition has a size
\* above cycleBound.  Stated for the trials that make a union or have a
\* bound of at least 1.
C18_EarlyExitEqualsTestAtEnd ==
    \A w \in Tasks :
        (TrialReturned(w) /\ (numPrisoners >= 2 \/ maxTrials >= 1)) =>
            (StoppedAtFirstExcess(w) /\ SameAsTestAtEnd(w))

\* -------------------------------------------------------------------------
\* C19
\* The parent links n elements have after the draws ds when each step wrote
\* parent[currentIndex] = randomIndex and nothing else.
ParentsFromDraws(n, ds) ==
    [e \in 0 .. n - 1 |-> IF e >= n - Len(ds) THEN ds[n - e] ELSE e]

\* C19: loop invariant of the trial.  At the start of every iteration every
\* index in [0, currentIndex] is its own parent, and every randomIndex drawn
\* lies in [0, currentIndex]; so each union attaches the root currentIndex
\* directly under the root randomIndex, a step writes parent[currentIndex]
\* and no other parent, and the size tested after the union is
\* size[randomIndex].
C19_LoopInvariant ==
    \A w \in Tasks : worker[w].s # Unused =>
        LET ds == worker[w].draws
            n == numPrisoners
            s == worker[w].s
        IN  /\ \A k \in 1 .. Len(ds) : ds[k] \in 0 .. n - k
            /\ InTrial(w) =>
                /\ worker[w].currentIndex = n - 1 - Len(ds)
                /\ \A e \in 0 .. worker[w].currentIndex : s.parent[e] = e
            /\ s.parent = ParentsFromDraws(n, ds)
            /\ Len(ds) >= 1 =>
                /\ s.parent[ds[Len(ds)]] = ds[Len(ds)]
                /\ find(s, n - Len(ds)) = ds[Len(ds)]

\* Two steps of a trial of 3 prisoners: index 2 went under 1, then 1 under 0.
C19_Witness ==
    /\ numPrisoners = 3
    /\ worker[0].draws = <<1, 0>>
    /\ worker[0].s.parent = (0 :> 0 @@ 1 :> 0 @@ 2 :> 1)

\* -------------------------------------------------------------------------
\* C20
\* The trials all tasks of the run have executed to their return, and those
\* of them that returned FOUND.
TrialsCompleted == SumOver([w \in Tasks |-> worker[w].i], MaxWorkers)
TrialsFound == SumOver([w \in Tasks |-> worker[w].nFound], MaxWorkers)

\* C20: in every mode, whenever a statistics report is printed, the
\* simulation count it shows is the number of trials the workers executed to
\* completion and its success total is the number of those trials that
\* returned Found, also in process mode when a worker process exits early
\* without writing its slot.
C20_ReportMatchesTrialsRun ==
    \A k \in 1 .. Len(stats) :
        /\ stats[k].n = TrialsCompleted
        /\ stats[k].sum = TrialsFound

====
